---------------------------- MODULE Spec2Model ----------------------------
(***************************************************************************)
(* Model of the liquidity monitor: the SQLite observation store            *)
(* (liquidity_monitor/storage.py) and the metric derivations built on it   *)
(* (liquidity_monitor/metrics.py).                                         *)
(*                                                                         *)
(* Conventions.                                                            *)
(*  - A date is a day number.  The code keeps dates as ISO "YYYY-MM-DD"    *)
(*    strings and compares them as strings; for well-formed ISO dates that *)
(*    order is the order of the days, which is the order used here.        *)
(*  - A stored value is an integer (a float holding an integer).           *)
(*  - The column fetched_at is written by the store and read by no query;  *)
(*    it is left out of the rows.                                          *)
(*  - Python's None is the empty tuple; a field that holds "a float or     *)
(*    None" holds <<v>> or <<>>.                                           *)
(***************************************************************************)
EXTENDS Integers, Sequences, FiniteSets, TLC

VARIABLES
    observations,   \* the table observations: a set of rows
    result          \* the last call: its name, its arguments, what it returned

vars == <<observations, result>>

-----------------------------------------------------------------------------
(* Bounds of the checked instances *)

MaxDate == 2        \* the instances carry observations on the first MaxDate days of Calendar
MaxObs == 2         \* longest observation list passed to one upsert call
MaxLimit == 2       \* largest LIMIT (max_count, days) passed to a query
MaxPoints == 3      \* longest net-liquidity list passed to get_liquidity_impulse

\* The days on which the instances carry observations: a month apart, a week
\* apart, and a month apart again, so that the 7-day and 30-day lookbacks fall
\* on, between and before them.
Calendar == <<1, 31, 38, 68>>

Dates == {Calendar[i] : i \in 1..MaxDate}

\* The series the store instance writes and reads.
StoreSeries == {"WALCL", "WTREGEN"}

\* The values an observation of a series may carry in the tables drawn for
\* the read-only instances.
ValuesOf(s) ==
    CASE s = "WALCL" -> {100, 110}
      [] s = "WTREGEN" -> {10, 12}
      [] s = "RRPONTSYD" -> {0, 5}
      [] s = "ECBASSETSW" -> {300, 500}
      [] s = "DEXUSEU" -> {1, 2}
      [] s \in {"USDT_MCAP", "USDC_MCAP"} -> {0, 4000000, 30000000}
      [] s = "ETH_MCAP" -> {0, 100, 500}
      [] s = "BNB_MCAP" -> {20}
      [] s \in {"SOL_MCAP", "XRP_MCAP", "BTC_MCAP"} -> {10}
      [] s = "NFCI" -> {-523, 127}
      [] s \in {"BTC_USD", "ETH_USD"} -> {100000, 110000}
      [] OTHER -> {1, 2}

\* The values the store instance writes for a series.
WrittenValues(s) == IF s = "WALCL" THEN {100, 110} ELSE {10}

None == <<>>
Some(v) == <<v>>

Min(a, b) == IF a <= b THEN a ELSE b

NoCall == [op |-> "none"]

-----------------------------------------------------------------------------
(* storage.py *)

Row(s, d, v) == [series_id |-> s, date |-> d, value |-> v]

\* Whether a row is the one the primary key (series_id, date) names.
has_key(r, s, d) == r.series_id = s /\ r.date = d

\* The rows a write to (series_id, date) conflicts with under the primary key.
conflict(table, s, d) == {r \in table : has_key(r, s, d)}

\* INSERT INTO observations ... : the statement without its ON CONFLICT clause
\* on a table that does not enforce the key.
execute_insert(table, s, d, v) == table \cup {Row(s, d, v)}

\* INSERT ... ON CONFLICT DO NOTHING: the first write of a key wins.
execute_insert_or_ignore(table, s, d, v) ==
    IF conflict(table, s, d) = {} THEN table \cup {Row(s, d, v)} ELSE table

\* ON CONFLICT DO UPDATE SET value = value + excluded.value
execute_upsert_accumulate(table, s, d, v) ==
    IF conflict(table, s, d) = {}
    THEN table \cup {Row(s, d, v)}
    ELSE {IF has_key(r, s, d) THEN [r EXCEPT !.value = @ + v] ELSE r : r \in table}

\* INSERT ... ON CONFLICT (series_id, date) DO UPDATE SET value = excluded.value
execute_upsert(table, s, d, v) ==
    IF conflict(table, s, d) = {}
    THEN table \cup {Row(s, d, v)}
    ELSE {IF has_key(r, s, d) THEN [r EXCEPT !.value = v] ELSE r : r \in table}

\* A rowcount that leaves out the rows an update did not change.
rowcount_changed_only(table, s, d, v) ==
    Cardinality({Row(s, d, v)} \ table)

\* cursor.rowcount after the statement: the row inserted, or the rows the
\* DO UPDATE branch wrote (SQLite counts them whether or not the value differs).
rowcount(table, s, d, v) ==
    IF conflict(table, s, d) = {} THEN 1 ELSE Cardinality(conflict(table, s, d))

\* The loop of upsert_observations over the list, from the table and the
\* count so far.
RECURSIVE upsert_loop(_, _, _, _)
upsert_loop(table, inserted, series_id, obs) ==
    IF obs = <<>>
    THEN [table |-> table, inserted |-> inserted]
    ELSE LET o == Head(obs)
         IN  upsert_loop(
                 execute_upsert(table, series_id, o.date, o.value),
                 IF rowcount(table, series_id, o.date, o.value) > 0
                     THEN inserted + 1 ELSE inserted,
                 series_id, Tail(obs))

upsert_observations(series_id, obs) ==
    \E out \in {upsert_loop(observations, 0, series_id, obs)} :
        /\ observations' = out.table
        /\ result' = [op |-> "upsert_observations", series_id |-> series_id,
                      observations |-> obs, value |-> out.inserted]

\* WHERE series_id = ?
where_series(table, s) == {r \in table : r.series_id = s}

\* ORDER BY date ASC
RECURSIVE order_by_date_asc(_)
order_by_date_asc(rows) ==
    IF rows = {}
    THEN <<>>
    ELSE LET r == CHOOSE r \in rows : \A q \in rows : r.date <= q.date
         IN  <<r>> \o order_by_date_asc(rows \ {r})

\* ORDER BY date DESC
RECURSIVE order_by_date_desc(_)
order_by_date_desc(rows) ==
    IF rows = {}
    THEN <<>>
    ELSE LET r == CHOOSE r \in rows : \A q \in rows : q.date <= r.date
         IN  <<r>> \o order_by_date_desc(rows \ {r})

\* LIMIT ?
limit(rows, n) == SubSeq(rows, 1, Min(n, Len(rows)))

\* SELECT date, value ... [dict(r) for r in rows]
dicts(rows) == [i \in 1..Len(rows) |-> [date |-> rows[i].date, value |-> rows[i].value]]

reversed(rows) == [i \in 1..Len(rows) |-> rows[Len(rows) + 1 - i]]

get_latest(table, series_id, n) ==
    dicts(limit(order_by_date_desc(where_series(table, series_id)), n))

\* The query with ORDER BY date ASC: the oldest rows instead of the newest.
get_series_history_oldest(table, series_id, days) ==
    dicts(limit(order_by_date_asc(where_series(table, series_id)), days))

\* The rows as the query returns them, newest first: the history without its
\* reversal.
get_series_history_newest_first(table, series_id, days) ==
    dicts(limit(order_by_date_desc(where_series(table, series_id)), days))

get_series_history(table, series_id, days) ==
    dicts(reversed(limit(order_by_date_desc(where_series(table, series_id)), days)))

\* The lookup with date < ? in place of date <= ?.
get_value_before_offset(table, series_id, target_date) ==
    LET rows == limit(order_by_date_desc(
                    {r \in where_series(table, series_id) : r.date < target_date}), 1)
    IN  IF rows = <<>> THEN None ELSE dicts(rows)[1]

get_value_at_offset(table, series_id, target_date) ==
    LET rows == limit(order_by_date_desc(
                    {r \in where_series(table, series_id) : r.date <= target_date}), 1)
    IN  IF rows = <<>> THEN None ELSE dicts(rows)[1]

-----------------------------------------------------------------------------
(* fred_client.py *)

\* SERIES: the tracked series and their labels.
SERIES == {"WALCL", "WRESBAL", "RRPONTSYD", "M2SL", "WTREGEN"}

Label(s) ==
    CASE s = "WALCL" -> "Fed Balance Sheet"
      [] s = "WRESBAL" -> "Bank Reserves"
      [] s = "RRPONTSYD" -> "Reverse Repos"
      [] s = "M2SL" -> "M2 Money Supply"
      [] s = "WTREGEN" -> "Treasury General Account"

-----------------------------------------------------------------------------
(* metrics.py *)

compute_net_liquidity(fed_assets, tga, reverse_repos) ==
    fed_assets - tga - reverse_repos

\* Python's truth value of "a float or None": None and 0.0 are false.
truthy(x) == x # None /\ x[1] # 0

\* The body of the loop of get_current_snapshot: the entry of one series.
snapshot_entry(table, series_id, week_ago, month_ago) ==
    LET latest_rows == get_latest(table, series_id, 1)
    IN  IF latest_rows = <<>>
        THEN [label |-> Label(series_id), current |-> None]
        ELSE LET current == latest_rows[1]
                 week_val == get_value_at_offset(table, series_id, week_ago)
                 month_val == get_value_at_offset(table, series_id, month_ago)
                 entry == [label |-> Label(series_id),
                           current_date |-> current.date,
                           current |-> Some(current.value),
                           week_ago |-> IF week_val # None
                                        THEN Some(week_val.value) ELSE None,
                           month_ago |-> IF month_val # None
                                         THEN Some(month_val.value) ELSE None]
             IN  entry
                 @@ (IF entry.week_ago # None
                     THEN [week_change |-> entry.current[1] - entry.week_ago[1]]
                     ELSE <<>>)
                 @@ (IF entry.month_ago # None
                     THEN [month_change |-> entry.current[1] - entry.month_ago[1]]
                     ELSE <<>>)

\* The NET_LIQUIDITY entry of get_current_snapshot, from the entries of its
\* three components, all three with a current value.
net_liquidity_entry(w, t, r) ==
    LET nl_current == compute_net_liquidity(w.current[1], t.current[1],
                                            r.current[1] * 1000)
        nl_week == compute_net_liquidity(w.week_ago[1], t.week_ago[1],
                                         r.week_ago[1] * 1000)
        nl_month == compute_net_liquidity(w.month_ago[1], t.month_ago[1],
                                          r.month_ago[1] * 1000)
    IN  [label |-> "Net Liquidity", current |-> Some(nl_current),
         current_date |-> w.current_date]
        @@ (IF truthy(w.week_ago) /\ truthy(t.week_ago) /\ truthy(r.week_ago)
            THEN [week_ago |-> Some(nl_week), week_change |-> nl_current - nl_week]
            ELSE <<>>)
        @@ (IF truthy(w.month_ago) /\ truthy(t.month_ago) /\ truthy(r.month_ago)
            THEN [month_ago |-> Some(nl_month), month_change |-> nl_current - nl_month]
            ELSE <<>>)

get_current_snapshot(table, today) ==
    LET week_ago == today - 7
        month_ago == today - 30
        snapshot == [series_id \in SERIES |->
                        snapshot_entry(table, series_id, week_ago, month_ago)]
        w == snapshot["WALCL"]
        t == snapshot["WTREGEN"]
        r == snapshot["RRPONTSYD"]
    IN  IF w.current # None /\ t.current # None /\ r.current # None
        THEN snapshot @@ [k \in {"NET_LIQUIDITY"} |-> net_liquidity_entry(w, t, r)]
        ELSE snapshot

\* {r["date"]: r["value"] for r in rows}: a later row of a date replaces an
\* earlier one.
to_dict(rows) ==
    [d \in {rows[i].date : i \in 1..Len(rows)} |->
        rows[CHOOSE i \in 1..Len(rows) :
                 /\ rows[i].date = d
                 /\ \A j \in 1..Len(rows) : rows[j].date = d => j <= i].value]

\* sorted(dates)
RECURSIVE sorted(_)
sorted(dates) ==
    IF dates = {}
    THEN <<>>
    ELSE LET d == CHOOSE d \in dates : \A e \in dates : d <= e
         IN  <<d>> \o sorted(dates \ {d})

\* dict.get(d, 0)
get_or_zero(dict, d) == IF d \in DOMAIN dict THEN dict[d] ELSE 0

\* The integer nearest to num / den, a tie going to the even one: round() of
\* a quotient, counted in units of the last digit kept.
round_div(num, den) ==
    LET q == num \div den
        r == num % den
    IN  IF 2 * r < den THEN q
        ELSE IF 2 * r > den THEN q + 1
        ELSE IF q % 2 = 0 THEN q ELSE q + 1

\* The history without the normalisation of RRPONTSYD to millions.
net_liquidity_point_unscaled(walcl, tga, rrp, d) ==
    [date |-> d, value |-> compute_net_liquidity(walcl[d], tga[d], rrp[d])]

\* The body of the loop of get_net_liquidity_history: the point of a date.
net_liquidity_point(walcl, tga, rrp, d) ==
    [date |-> d, value |-> compute_net_liquidity(walcl[d], tga[d], rrp[d] * 1000)]

get_net_liquidity_history(table, days) ==
    LET walcl == to_dict(get_series_history(table, "WALCL", days))
        tga == to_dict(get_series_history(table, "WTREGEN", days))
        rrp == to_dict(get_series_history(table, "RRPONTSYD", days))
        common_dates == sorted(DOMAIN walcl \cap DOMAIN tga \cap DOMAIN rrp)
    IN  [i \in 1..Len(common_dates) |->
            net_liquidity_point(walcl, tga, rrp, common_dates[i])]

\* while fx_idx < len(fx_dates) - 1 and fx_dates[fx_idx + 1] <= d: fx_idx += 1
\* (fx_idx counts from 1 here).
RECURSIVE advance_fx(_, _, _)
advance_fx(fx_dates, fx_idx, d) ==
    IF fx_idx < Len(fx_dates) /\ fx_dates[fx_idx + 1] <= d
    THEN advance_fx(fx_dates, fx_idx + 1, d)
    ELSE fx_idx

\* A join that never skips a date: the first rate is carried backwards.
never_skip(fx_dates, fx_idx, d) == FALSE

\* if fx_idx >= len(fx_dates) or fx_dates[fx_idx] > d: continue
skip_date(fx_dates, fx_idx, d) ==
    fx_idx > Len(fx_dates) \/ fx_dates[fx_idx] > d

\* The loop of get_global_liquidity_history over the dates left, from the
\* history and fx_idx so far.  A value is round(fed_t + ecb_t, 4) counted in
\* units of 0.0001 trillion: (walcl + ecb * rate) / 1e6 * 1e4.
RECURSIVE global_loop(_, _, _, _, _, _, _)
global_loop(walcl, ecb, fx, fx_dates, dates, fx_idx, history) ==
    IF dates = <<>>
    THEN history
    ELSE LET d == Head(dates)
             idx == advance_fx(fx_dates, fx_idx, d)
             rate == fx[fx_dates[idx]]
         IN  IF skip_date(fx_dates, idx, d)
             THEN global_loop(walcl, ecb, fx, fx_dates, Tail(dates), idx, history)
             ELSE global_loop(walcl, ecb, fx, fx_dates, Tail(dates), idx,
                      Append(history,
                             [date |-> d,
                              value |-> round_div(walcl[d] + ecb[d] * rate, 100)]))

get_global_liquidity_history(table, days) ==
    LET walcl == to_dict(get_series_history(table, "WALCL", days))
        ecb == to_dict(get_series_history(table, "ECBASSETSW", days))
        fx == to_dict(get_series_history(table, "DEXUSEU", days))
    IN  IF DOMAIN ecb = {} \/ DOMAIN fx = {}
        THEN <<>>
        ELSE global_loop(walcl, ecb, fx, sorted(DOMAIN fx),
                         sorted(DOMAIN walcl \cap DOMAIN ecb), 1, <<>>)

\* The dates of the USDT series alone, as the comment above the line has it.
stablecoin_dates_usdt(usdt, usdc) == sorted(DOMAIN usdt)

\* all_dates = sorted(set(usdt) | set(usdc))
stablecoin_dates(usdt, usdc) == sorted(DOMAIN usdt \cup DOMAIN usdc)

\* The loop of get_stablecoin_history over the dates left.  A value is
\* round(total / 1e9, 2) counted in units of 0.01 billion.
RECURSIVE stablecoin_loop(_, _, _, _)
stablecoin_loop(usdt, usdc, dates, history) ==
    IF dates = <<>>
    THEN history
    ELSE LET d == Head(dates)
             total == get_or_zero(usdt, d) + get_or_zero(usdc, d)
         IN  IF total > 0
             THEN stablecoin_loop(usdt, usdc, Tail(dates),
                      Append(history,
                             [date |-> d, value |-> round_div(total, 10000000)]))
             ELSE stablecoin_loop(usdt, usdc, Tail(dates), history)

\* The history without the early return on an empty USDT_MCAP.
get_stablecoin_history_unguarded(table, days) ==
    LET usdt == to_dict(get_series_history(table, "USDT_MCAP", days))
        usdc == to_dict(get_series_history(table, "USDC_MCAP", days))
    IN  stablecoin_loop(usdt, usdc, stablecoin_dates(usdt, usdc), <<>>)

get_stablecoin_history(table, days) ==
    LET usdt == to_dict(get_series_history(table, "USDT_MCAP", days))
        usdc == to_dict(get_series_history(table, "USDC_MCAP", days))
    IN  IF DOMAIN usdt = {}
        THEN <<>>
        ELSE stablecoin_loop(usdt, usdc, stablecoin_dates(usdt, usdc), <<>>)

\* round(r["value"], 2) for the rows of a series stored in thousandths: a
\* value is counted in units of 0.01.
rounded_history(rows) ==
    [i \in 1..Len(rows) |-> [date |-> rows[i].date, value |-> round_div(rows[i].value, 10)]]

get_ism_history(table, days) == rounded_history(get_series_history(table, "NFCI", days))

get_btc_history(table, days) == rounded_history(get_series_history(table, "BTC_USD", days))

get_eth_history(table, days) == rounded_history(get_series_history(table, "ETH_USD", days))

-----------------------------------------------------------------------------
(* crypto_client.py *)

TRACKED_ALT_MCAPS == {"ETH_MCAP", "BNB_MCAP", "SOL_MCAP", "XRP_MCAP"}

-----------------------------------------------------------------------------
(* metrics.py: the altcoin estimate.  The market caps of the basket and
   total_mcap are counted in millions of dollars and an emitted value in units
   of 0.01 billion, so that round(estimated_total / 1e9, 2) is the rounded
   quotient of estimated_total by 10; btc_mcap_pct is a whole number of
   percent. *)

RECURSIVE sum_over(_, _, _)
sum_over(alt_series, sids, d) ==
    IF sids = {}
    THEN 0
    ELSE LET sid == CHOOSE sid \in sids : TRUE
         IN  get_or_zero(alt_series[sid], d) + sum_over(alt_series, sids \ {sid}, d)

\* sum(s.get(d, 0) for s in alt_series.values())
tracked_sum(alt_series, d) == sum_over(alt_series, DOMAIN alt_series, d)

\* if global_stats and btc_mcap
use_global_stats(global_stats, btc_mcap) ==
    global_stats # None /\ DOMAIN btc_mcap # {}

\* scale, as the quotient num / den: 1.0, or true_alts / tracked_sum(latest)
\* with true_alts = total_mcap * (1.0 - btc_pct / 100.0).
scale_of(alt_series, btc_mcap, global_stats, latest) ==
    IF use_global_stats(global_stats, btc_mcap)
           /\ tracked_sum(alt_series, latest) > 0
    THEN [num |-> global_stats.total_mcap * (100 - global_stats.btc_mcap_pct),
          den |-> tracked_sum(alt_series, latest) * 100]
    ELSE [num |-> 1, den |-> 1]

\* The loop of get_altcoin_history over the dates left.
RECURSIVE altcoin_loop(_, _, _, _)
altcoin_loop(alt_series, scale, dates, history) ==
    IF dates = <<>>
    THEN history
    ELSE LET d == Head(dates)
             sum == tracked_sum(alt_series, d)
         IN  IF sum > 0
             THEN altcoin_loop(alt_series, scale, Tail(dates),
                      Append(history,
                             [date |-> d,
                              value |-> round_div(sum * scale.num, scale.den * 10)]))
             ELSE altcoin_loop(alt_series, scale, Tail(dates), history)

get_altcoin_history(table, global_stats, days) ==
    LET alt_series == [sid \in TRACKED_ALT_MCAPS |->
                          to_dict(get_series_history(table, sid, days))]
        btc_mcap == to_dict(get_series_history(table, "BTC_MCAP", days))
        all_dates == sorted(DOMAIN alt_series["ETH_MCAP"])
    IN  IF all_dates = <<>>
        THEN <<>>
        ELSE altcoin_loop(alt_series,
                          scale_of(alt_series, btc_mcap, global_stats,
                                   all_dates[Len(all_dates)]),
                          all_dates, <<>>)

-----------------------------------------------------------------------------
(* metrics.py: impulse and regime.  Net liquidity is in millions;
   change_billions is counted in units of 0.1 billion and change_pct in units
   of 0.01 percent. *)

Abs(x) == IF x < 0 THEN -x ELSE x

\* The test with d < target: a point dated 30 days back exactly is passed over.
strictly_before(d, target) == d < target

\* if d <= target
on_or_before(d, target) == d <= target

\* for point in net_liq_history: if d <= target: closest = point; else: break
RECURSIVE closest_scan(_, _, _, _)
closest_scan(net_liq_history, i, target, closest) ==
    IF i > Len(net_liq_history)
    THEN closest
    ELSE IF on_or_before(net_liq_history[i].date, target)
         THEN closest_scan(net_liq_history, i + 1, target, net_liq_history[i])
         ELSE closest

\* The difference taken the other way round.
change_reversed(current, closest) == closest.value - current.value

\* change = current["value"] - closest["value"]
change_of(current, closest) == current.value - closest.value

\* pct, rounded: (change / abs(closest["value"])) * 100 if closest["value"] != 0 else 0
pct_of(change, closest) ==
    IF closest.value # 0 THEN round_div(change * 10000, Abs(closest.value)) ELSE 0

get_liquidity_impulse(net_liq_history) ==
    IF Len(net_liq_history) < 2
    THEN None
    ELSE LET current == net_liq_history[Len(net_liq_history)]
             target == current.date - 30
             closest == closest_scan(net_liq_history, 1, target, None)
         IN  IF closest = None
             THEN None
             ELSE LET change == change_of(current, closest)
                  IN  [change_billions |-> round_div(change, 100),
                       change_pct |-> pct_of(change, closest)]

\* The thresholds taken inclusively: 20 already expands, -20 already contracts.
get_regime_inclusive(impulse) ==
    IF impulse = None THEN "neutral"
    ELSE IF impulse.change_billions >= 200 THEN "expanding"
    ELSE IF impulse.change_billions <= -200 THEN "contracting"
    ELSE "neutral"

\* The threshold of 20 billion is 200 units of 0.1 billion.
get_regime(impulse) ==
    IF impulse = None THEN "neutral"
    ELSE IF impulse.change_billions > 200 THEN "expanding"
    ELSE IF impulse.change_billions < -200 THEN "contracting"
    ELSE "neutral"

-----------------------------------------------------------------------------
(* web/__init__.py: the summary of _build_dashboard_data (build_data of
   generate_site.py computes the same, without the ism entries).  The table
   rows and the chart lists of the returned data reformat the snapshot and the
   histories and are left out.  A part of the summary is the entries it sets,
   or the exception it raises. *)

Part(fields) == [raised |-> FALSE, fields |-> fields]

\* float division by 0.0
ZeroDivisionError == [raised |-> TRUE, fields |-> <<>>]

\* round(num / den, ...) for a den of either sign.
round_quot(num, den) ==
    IF den > 0 THEN round_div(num, den) ELSE round_div(-num, -den)

\* summary[key] = round((latest - earlier) / earlier * 100, 1), in units of
\* 0.1 percent.
pct_change(key, latest, earlier) ==
    IF earlier = 0
    THEN ZeroDivisionError
    ELSE Part([k \in {key} |-> round_quot((latest - earlier) * 1000, earlier)])

\* The entries of one history: those of its last point, and the percent
\* change from the point `back` places before the last when the history is
\* longer than `back`.
with_pct(history, latest_fields, back, key) ==
    IF history = <<>>
    THEN Part(<<>>)
    ELSE IF Len(history) > back
         THEN LET pct == pct_change(key, history[Len(history)].value,
                                    history[Len(history) - back].value)
              IN  IF pct.raised THEN pct ELSE Part(latest_fields @@ pct.fields)
         ELSE Part(latest_fields)

Last(history) == history[Len(history)].value

\* summary["net_liquidity"] = round(nl["current"] / 1e6, 3), in units of 0.001
\* trillion.
net_liquidity_summary(snapshot) ==
    IF "NET_LIQUIDITY" \in DOMAIN snapshot
    THEN Part([net_liquidity |-> round_div(snapshot["NET_LIQUIDITY"].current[1], 1000)])
    ELSE Part(<<>>)

\* btc_price is in dollars, a history value in cents.
btc_summary(btc_history) ==
    with_pct(btc_history,
             IF btc_history = <<>> THEN <<>>
             ELSE [btc_price |-> round_div(Last(btc_history), 100)],
             30, "btc_30d_pct")

eth_summary(eth_history) ==
    with_pct(eth_history,
             IF eth_history = <<>> THEN <<>>
             ELSE [eth_price |-> round_div(Last(eth_history), 100)],
             30, "eth_30d_pct")

\* altcoin_mcap is in units of 0.1 billion, a history value in units of 0.01.
altcoin_summary(altcoin_history) ==
    with_pct(altcoin_history,
             IF altcoin_history = <<>> THEN <<>>
             ELSE [altcoin_mcap |-> round_div(Last(altcoin_history), 10)],
             30, "altcoin_30d_pct")

global_summary(global_liq_history) ==
    with_pct(global_liq_history,
             IF global_liq_history = <<>> THEN <<>>
             ELSE [global_liquidity |-> Last(global_liq_history)],
             4, "global_30d_pct")

\* stablecoin_total and stablecoin_30d_change are in units of 0.1 billion.
stablecoin_summary(stablecoin_history) ==
    IF stablecoin_history = <<>>
    THEN Part(<<>>)
    ELSE Part([stablecoin_total |-> round_div(Last(stablecoin_history), 10)]
              @@ (IF Len(stablecoin_history) > 30
                  THEN [stablecoin_30d_change |->
                            round_div(Last(stablecoin_history)
                                        - stablecoin_history[Len(stablecoin_history) - 30].value,
                                      10)]
                  ELSE <<>>))

ism_summary(ism_history) ==
    IF ism_history = <<>>
    THEN Part(<<>>)
    ELSE Part([ism |-> Last(ism_history)]
              @@ (IF Len(ism_history) >= 2
                  THEN [ism_prev |-> ism_history[Len(ism_history) - 1].value,
                        ism_change |-> Last(ism_history)
                                         - ism_history[Len(ism_history) - 1].value]
                  ELSE <<>>))

RECURSIVE merge(_)
merge(parts) ==
    IF parts = <<>> THEN <<>> ELSE Head(parts).fields @@ merge(Tail(parts))

\* _build_dashboard_data with the 2000 rows each history asks for by default:
\* the impulse, the regime and the summary, or the exception raised.
build_dashboard_data(table, today) ==
    LET snapshot == get_current_snapshot(table, today)
        net_liq_history == get_net_liquidity_history(table, 2000)
        impulse == get_liquidity_impulse(net_liq_history)
        parts == <<net_liquidity_summary(snapshot),
                   btc_summary(get_btc_history(table, 2000)),
                   stablecoin_summary(get_stablecoin_history(table, 2000)),
                   global_summary(get_global_liquidity_history(table, 2000)),
                   eth_summary(get_eth_history(table, 2000)),
                   altcoin_summary(get_altcoin_history(table, None, 2000)),
                   ism_summary(get_ism_history(table, 2000))>>
    IN  IF \E i \in 1..Len(parts) : parts[i].raised
        THEN [raised |-> "ZeroDivisionError"]
        ELSE [regime |-> get_regime(impulse), impulse |-> impulse,
              summary |-> merge(parts)]

-----------------------------------------------------------------------------
(* The store instance: calls of the storage functions on an empty database *)

\* The dates the store instance writes for a series: every date for WALCL,
\* and one date for the second series, where the two series meet.
WrittenDates(s) == IF s = "WALCL" THEN Dates ELSE {Calendar[1]}

\* The observation lists one upsert call may carry for a series.
ObsOf(s) == [date : WrittenDates(s), value : WrittenValues(s)]
ObsLists(s) == UNION {[1..n -> ObsOf(s)] : n \in 0..MaxObs}

InitStore ==
    /\ observations = {}
    /\ result = NoCall

Upsert ==
    \E s \in StoreSeries : \E obs \in ObsLists(s) : upsert_observations(s, obs)

GetLatest ==
    \E s \in StoreSeries : \E n \in 0..MaxLimit :
        /\ result' = [op |-> "get_latest", series_id |-> s, limit |-> n,
                      value |-> get_latest(observations, s, n)]
        /\ UNCHANGED observations

GetSeriesHistory ==
    \E s \in StoreSeries : \E n \in 0..MaxLimit :
        /\ result' = [op |-> "get_series_history", series_id |-> s, days |-> n,
                      value |-> get_series_history(observations, s, n)]
        /\ UNCHANGED observations

GetValueAtOffset ==
    \E s \in StoreSeries : \E d \in Dates \cup {e - 1 : e \in Dates} :
        /\ result' = [op |-> "get_value_at_offset", series_id |-> s, target_date |-> d,
                      value |-> get_value_at_offset(observations, s, d)]
        /\ UNCHANGED observations

NextStore == Upsert

Spec == InitStore /\ [][NextStore]_vars

-----------------------------------------------------------------------------
(* The query instance: the read functions on every table over StoreSeries *)

\* Every table that holds at most one row for each key of the set keys.
RECURSIVE TablesOver(_)
TablesOver(keys) ==
    IF keys = {}
    THEN {{}}
    ELSE LET k == CHOOSE k \in keys : TRUE
         IN  {a \cup b : a \in {{}} \cup {{Row(k[1], k[2], v)} : v \in ValuesOf(k[1])},
                         b \in TablesOver(keys \ {k})}

InitQuery ==
    /\ observations \in TablesOver(StoreSeries \X Dates)
    /\ result = NoCall

NextQuery == GetLatest \/ GetSeriesHistory \/ GetValueAtOffset

SpecQuery == InitQuery /\ [][NextQuery]_vars

-----------------------------------------------------------------------------
(* The snapshot instance: get_current_snapshot on every table over a component
   of net liquidity and a series that is none, on the days around the
   lookbacks of the first dates *)

SnapshotSeries == {"WALCL", "M2SL"}

\* The days the snapshot is taken on: 6 and 7 days after each date, and 29 and
\* 30 days after the first.
Todays ==
    {d + 6 : d \in Dates} \cup {d + 7 : d \in Dates}
        \cup {Calendar[1] + 29, Calendar[1] + 30}

InitSnapshot ==
    /\ observations \in TablesOver(SnapshotSeries \X Dates)
    /\ result = NoCall

GetCurrentSnapshot ==
    \E today \in Todays :
        /\ result' = [op |-> "get_current_snapshot", today |-> today,
                      value |-> get_current_snapshot(observations, today)]
        /\ UNCHANGED observations

SpecSnapshot == InitSnapshot /\ [][GetCurrentSnapshot]_vars

-----------------------------------------------------------------------------
(* The derivation instances: each history function on every table over the
   series it reads *)

NetSeries == {"WALCL", "WTREGEN", "RRPONTSYD"}

InitNet ==
    /\ observations \in TablesOver(NetSeries \X Dates)
    /\ result = NoCall

GetNetLiquidityHistory ==
    \E days \in 0..MaxLimit :
        /\ result' = [op |-> "get_net_liquidity_history", days |-> days,
                      value |-> get_net_liquidity_history(observations, days)]
        /\ UNCHANGED observations

SpecNet == InitNet /\ [][GetNetLiquidityHistory]_vars

\* The net-liquidity snapshot instance: the snapshot or the history on every
\* table over the three components of net liquidity.  Neither call writes the
\* table, so a behaviour makes one call.
NextNetSnapshot ==
    \/ result = NoCall /\ GetCurrentSnapshot
    \/ result = NoCall /\ GetNetLiquidityHistory

SpecNetSnapshot == InitNet /\ [][NextNetSnapshot]_vars

GlobalSeries == {"WALCL", "ECBASSETSW", "DEXUSEU"}

InitGlobal ==
    /\ observations \in TablesOver(GlobalSeries \X Dates)
    /\ result = NoCall

GetGlobalLiquidityHistory ==
    \E days \in 0..MaxLimit :
        /\ result' = [op |-> "get_global_liquidity_history", days |-> days,
                      value |-> get_global_liquidity_history(observations, days)]
        /\ UNCHANGED observations

SpecGlobal == InitGlobal /\ [][GetGlobalLiquidityHistory]_vars

StablecoinSeries == {"USDT_MCAP", "USDC_MCAP"}

InitStablecoin ==
    /\ observations \in TablesOver(StablecoinSeries \X Dates)
    /\ result = NoCall

GetStablecoinHistory ==
    \E days \in 0..MaxLimit :
        /\ result' = [op |-> "get_stablecoin_history", days |-> days,
                      value |-> get_stablecoin_history(observations, days)]
        /\ UNCHANGED observations

SpecStablecoin == InitStablecoin /\ [][GetStablecoinHistory]_vars

\* The altcoin instance: the anchor series and one more of the basket on every
\* date, the two others and BTC_MCAP on the first date.
AltcoinKeys ==
    ({"ETH_MCAP", "BNB_MCAP"} \X Dates)
        \cup ({"SOL_MCAP", "XRP_MCAP", "BTC_MCAP"} \X {Calendar[1]})

\* The global market snapshots passed: none, and two with true_total_alts of
\* 2 and of 6 billion.
GlobalStats ==
    {None, [total_mcap |-> 4000, btc_mcap_pct |-> 50],
           [total_mcap |-> 10000, btc_mcap_pct |-> 40]}

InitAltcoin ==
    /\ observations \in TablesOver(AltcoinKeys)
    /\ result = NoCall

GetAltcoinHistory ==
    \E days \in 0..MaxLimit : \E global_stats \in GlobalStats :
        /\ result' = [op |-> "get_altcoin_history", days |-> days,
                      global_stats |-> global_stats,
                      value |-> get_altcoin_history(observations, global_stats, days)]
        /\ UNCHANGED observations

SpecAltcoin == InitAltcoin /\ [][GetAltcoinHistory]_vars

-----------------------------------------------------------------------------
(* The impulse instance: get_liquidity_impulse on every list of at most
   MaxPoints points over the days of Calendar, in any order, and get_regime on
   impulses around the thresholds.  The two functions read their argument
   alone, so a behaviour makes one call. *)

CalendarDays == {Calendar[i] : i \in 1..Len(Calendar)}

\* Net-liquidity values, in millions: rises of 10 (0.01 billion), of 20000 and
\* of 25000 among them, and 0.
NetLiquidityValues == {0, 100, 110, 20100, 25100}

Points == [date : CalendarDays, value : NetLiquidityValues]

Histories == UNION {[1..n -> Points] : n \in 0..MaxPoints}

\* The impulses get_regime is called with: None, and changes on, next to and
\* beyond the thresholds.
Impulses ==
    {None} \cup [change_billions : {-250, -201, -200, 0, 200, 201, 250},
                 change_pct : {0}]

InitImpulse ==
    /\ observations = {}
    /\ result = NoCall

GetLiquidityImpulse ==
    /\ result = NoCall
    /\ \E net_liq_history \in Histories :
           result' = [op |-> "get_liquidity_impulse",
                      net_liq_history |-> net_liq_history,
                      value |-> get_liquidity_impulse(net_liq_history)]
    /\ UNCHANGED observations

GetRegime ==
    /\ result = NoCall
    /\ \E impulse \in Impulses :
           result' = [op |-> "get_regime", impulse |-> impulse,
                      value |-> get_regime(impulse)]
    /\ UNCHANGED observations

NextImpulse == GetLiquidityImpulse \/ GetRegime

SpecImpulse == InitImpulse /\ [][NextImpulse]_vars

-----------------------------------------------------------------------------
(* The dashboard instance: _build_dashboard_data on stores that hold 30 or 31
   daily rows of the price and market-cap series and 4 or 5 of the series of
   global liquidity, the earliest row zero or not *)

\* Rows of a series on the days 1..n: a first value, a last one, and one for
\* the days between.
Daily(s, n, first, between, last) ==
    {Row(s, d, IF d = 1 THEN first ELSE IF d = n THEN last ELSE between) : d \in 1..n}

\* The rows every table of the instance holds: the two other components of net
\* liquidity, a stablecoin supply and two financial-conditions readings.
FixedRows ==
    {Row("WTREGEN", 1, 700000), Row("RRPONTSYD", 1, 500),
     Row("USDT_MCAP", 1, 30000000), Row("NFCI", 1, -523), Row("NFCI", 2, 127)}

\* WALCL, ECBASSETSW and DEXUSEU on the days 1..n; the balance sheets of the
\* first day are empty when zero holds.
GlobalRows(n, zero) ==
    Daily("WALCL", n, IF zero THEN 0 ELSE 7000000, 7000000, 7200000)
        \cup Daily("ECBASSETSW", n, IF zero THEN 0 ELSE 6000000, 6000000, 6000000)
        \cup Daily("DEXUSEU", n, 1, 1, 1)

DashboardTables ==
    {FixedRows \cup Daily("BTC_USD", nb, fb, 100000, 110000)
               \cup Daily("ETH_USD", ne, fe, 100000, 110000)
               \cup Daily("ETH_MCAP", na, fa, 100, 120)
               \cup GlobalRows(ng, zg) :
        nb \in {30, 31}, fb \in {0, 100000}, ne \in {30, 31}, fe \in {0, 100000},
        na \in {30, 31}, fa \in {4, 100}, ng \in {4, 5}, zg \in BOOLEAN}

InitDashboard ==
    /\ observations \in DashboardTables
    /\ result = NoCall

BuildDashboardData ==
    /\ result = NoCall
    /\ \E today \in {38} :
           result' = [op |-> "build_dashboard_data", today |-> today,
                      value |-> build_dashboard_data(observations, today)]
    /\ UNCHANGED observations

SpecDashboard == InitDashboard /\ [][BuildDashboardData]_vars

-----------------------------------------------------------------------------
(* The derivation instance: every history function, the snapshot and the
   dashboard data on stores in which any of the series a function reads may
   be empty, hold some of the dates or hold them all.  No call writes the
   table, so a behaviour makes one call. *)

PriceSeries == {"NFCI", "BTC_USD", "ETH_USD"}

\* The greatest of the values of a series.
TopValue(s) == CHOOSE v \in ValuesOf(s) : \A u \in ValuesOf(s) : u <= v

\* Every table that holds a row, of the top value, for some of the keys.
PresenceTables(keys) ==
    {{Row(k[1], k[2], TopValue(k[1])) : k \in present} : present \in SUBSET keys}

DerivedTables ==
    PresenceTables(NetSeries \X Dates) \cup PresenceTables(GlobalSeries \X Dates)
        \cup PresenceTables(StablecoinSeries \X Dates) \cup PresenceTables(AltcoinKeys)
        \cup PresenceTables(PriceSeries \X Dates)

InitDerived ==
    /\ observations \in DerivedTables
    /\ result = NoCall

GetIsmHistory ==
    \E days \in 0..MaxLimit :
        /\ result' = [op |-> "get_ism_history", days |-> days,
                      value |-> get_ism_history(observations, days)]
        /\ UNCHANGED observations

GetBtcHistory ==
    \E days \in 0..MaxLimit :
        /\ result' = [op |-> "get_btc_history", days |-> days,
                      value |-> get_btc_history(observations, days)]
        /\ UNCHANGED observations

GetEthHistory ==
    \E days \in 0..MaxLimit :
        /\ result' = [op |-> "get_eth_history", days |-> days,
                      value |-> get_eth_history(observations, days)]
        /\ UNCHANGED observations

NextDerived ==
    \/ result = NoCall /\ GetNetLiquidityHistory
    \/ result = NoCall /\ GetGlobalLiquidityHistory
    \/ result = NoCall /\ GetStablecoinHistory
    \/ result = NoCall /\ GetAltcoinHistory
    \/ result = NoCall /\ GetIsmHistory
    \/ result = NoCall /\ GetBtcHistory
    \/ result = NoCall /\ GetEthHistory
    \/ result = NoCall /\ GetCurrentSnapshot
    \/ result = NoCall /\ BuildDashboardData

SpecDerived == InitDerived /\ [][NextDerived]_vars

-----------------------------------------------------------------------------
(* Claims about the store *)

IsUpsert == result.op = "upsert_observations"

\* C1: after any sequence of upsert_observations calls the table holds at most
\* one row for each (series_id, date) pair.
C1_OneRowPerKey ==
    \A r \in observations : \A q \in observations :
        (r.series_id = q.series_id /\ r.date = q.date) => r = q

\* An upsert call whose list names one date twice, with two values, on a table
\* that holds rows of both series.
C1_Witness ==
    /\ IsUpsert
    /\ Len(result.observations) = 2
    /\ result.observations[1].date = result.observations[2].date
    /\ result.observations[1].value # result.observations[2].value
    /\ \A s \in StoreSeries : where_series(observations, s) # {}

\* The dates a list of observations names.
DatesIn(obs) == {obs[i].date : i \in 1..Len(obs)}

\* The value the last observation of date d in a list carries.
LastValueIn(obs, d) ==
    LET i == CHOOSE i \in 1..Len(obs) :
                 /\ obs[i].date = d
                 /\ \A j \in 1..Len(obs) : obs[j].date = d => j <= i
    IN  obs[i].value

\* What latest(series_id, 1) is to return after the call upsert(series_id, obs)
\* on the table before: the greatest date stored before or named by the call,
\* with the value the call wrote last for it, or the value stored before when
\* the call does not name that date.
LatestAfter(before, series_id, obs) ==
    LET stored == {r.date : r \in where_series(before, series_id)}
        all == stored \cup DatesIn(obs)
    IN  IF all = {}
        THEN <<>>
        ELSE LET d == CHOOSE d \in all : \A e \in all : e <= d
             IN  <<[date |-> d,
                    value |-> IF d \in DatesIn(obs)
                              THEN LastValueIn(obs, d)
                              ELSE (CHOOSE r \in where_series(before, series_id) :
                                        r.date = d).value]>>

\* C2: every upsert call leaves latest(series_id, 1) at the greatest date ever
\* upserted for the series, carrying the value of the most recent write of that
\* date, whatever the order of the dates in the call; and it leaves the latest
\* row of every other series as it was.
C2_LatestIsLastWrite ==
    [][IsUpsert' =>
        /\ get_latest(observations', result'.series_id, 1)
             = LatestAfter(observations, result'.series_id, result'.observations)
        /\ \A s \in StoreSeries \ {result'.series_id} :
             get_latest(observations', s, 1) = get_latest(observations, s, 1)
      ]_vars

\* An upsert call that names its dates newest first: the latest row is the
\* first observation of the list, not the last one written.
C2_Witness ==
    /\ IsUpsert
    /\ Len(result.observations) = 2
    /\ result.observations[1].date > result.observations[2].date
    /\ get_latest(observations, result.series_id, 1)
         = <<[date |-> result.observations[1].date, value |-> 110]>>

\* C3: a second upsert call with the same series and the same list leaves the
\* stored (series_id, date) -> value mapping as the first call left it.
C3_UpsertIdempotent ==
    IsUpsert =>
        upsert_loop(observations, 0, result.series_id, result.observations).table
            = observations

\* An upsert call that wrote two dates of a series into a table that holds
\* other rows too.
C3_Witness ==
    /\ IsUpsert
    /\ Len(result.observations) = 2
    /\ result.observations[1].date # result.observations[2].date
    /\ Cardinality(observations) > 2

NewKeys(before, series_id, obs) ==
    {i \in 1..Len(obs) : conflict(before, series_id, obs[i].date) = {}}

\* C5: upsert_observations returns the number of new rows: the observations of
\* the call whose (series_id, date) key was not stored before the call.
C5_CountIsNewRows ==
    [][IsUpsert' =>
        result'.value
            = Cardinality(NewKeys(observations, result'.series_id, result'.observations))
      ]_vars

\* C6: get_series_history(series_id, max_count) returns, oldest first, the
\* max_count rows of the series with the greatest dates, all its rows when it
\* has fewer, and no row of another series.
C6_HistoryIsNewestWindow ==
    result.op = "get_series_history" =>
        LET h == result.value
            rows == where_series(observations, result.series_id)
        IN  /\ Len(h) = Min(result.days, Cardinality(rows))
            /\ \A i \in 1..(Len(h) - 1) : h[i].date < h[i + 1].date
            /\ \A i \in 1..Len(h) :
                 Row(result.series_id, h[i].date, h[i].value) \in observations
            /\ \A r \in rows :
                 (\A i \in 1..Len(h) : h[i].date # r.date)
                     => \A i \in 1..Len(h) : r.date < h[i].date

\* A history of one row asked of a series that holds two, in a table that
\* holds a row of the other series at the greatest date.
C6_Witness ==
    /\ result.op = "get_series_history"
    /\ result.days = 1
    /\ Len(result.value) = 1
    /\ Cardinality(where_series(observations, result.series_id)) = 2
    /\ \E r \in observations : r.series_id # result.series_id /\ r.date = Calendar[MaxDate]

-----------------------------------------------------------------------------
(* Claims about the snapshot *)

\* The rows of a series dated on or before a day.
OnOrBefore(series_id, day) ==
    {r \in where_series(observations, series_id) : r.date <= day}

\* The value of the row of greatest date among rows, boxed, or None.
ValueOfNewest(rows) ==
    IF rows = {}
    THEN None
    ELSE Some((CHOOSE r \in rows : \A q \in rows : q.date <= r.date).value)

\* C7: in the snapshot, for each tracked series that has a row, week_ago
\* (month_ago) is the value of the stored observation of greatest date <=
\* today - 7 (today - 30), or None when there is none, and week_change =
\* current - week_ago (month_change = current - month_ago) is present exactly
\* when that reference exists.
C7_SnapshotReferences ==
    result.op = "get_current_snapshot" =>
        \A s \in SERIES :
            where_series(observations, s) # {} =>
                LET e == result.value[s]
                    week == OnOrBefore(s, result.today - 7)
                    month == OnOrBefore(s, result.today - 30)
                IN  /\ e.current = ValueOfNewest(where_series(observations, s))
                    /\ e.week_ago = ValueOfNewest(week)
                    /\ e.month_ago = ValueOfNewest(month)
                    /\ ("week_change" \in DOMAIN e) <=> (week # {})
                    /\ ("month_change" \in DOMAIN e) <=> (month # {})
                    /\ week # {} => e.week_change = e.current[1] - e.week_ago[1]
                    /\ month # {} => e.month_change = e.current[1] - e.month_ago[1]

\* A snapshot in which WALCL has a week-ago and a month-ago reference of two
\* different rows, the week-ago one dated today - 7 exactly, and M2SL has a
\* week-ago reference and no month-ago one.
C7_Witness ==
    /\ result.op = "get_current_snapshot"
    /\ result.value["WALCL"].current # None
    /\ result.value["WALCL"].week_ago = Some(110)
    /\ result.value["WALCL"].month_ago = Some(100)
    /\ Row("WALCL", result.today - 7, 110) \in observations
    /\ result.value["M2SL"].current # None
    /\ result.value["M2SL"].week_ago # None
    /\ result.value["M2SL"].month_ago = None
    /\ "month_change" \notin DOMAIN result.value["M2SL"]

-----------------------------------------------------------------------------
(* Claims about the derived histories *)

\* The history window of a series: its n rows of greatest date.
Window(series_id, n) ==
    LET rows == where_series(observations, series_id)
    IN  {r \in rows : Cardinality({q \in rows : q.date > r.date}) < n}

DatesOf(rows) == {r.date : r \in rows}

ValueAt(rows, d) == (CHOOSE r \in rows : r.date = d).value

\* Whether a history is in ascending order of date and holds the dates of the
\* set dates, each once.
EmitsExactly(history, dates) ==
    /\ {history[i].date : i \in 1..Len(history)} = dates
    /\ \A i \in 1..(Len(history) - 1) : history[i].date < history[i + 1].date

\* The table of the example: WALCL = {d1: 100, d2: 110}, WTREGEN = {d1: 10,
\* d2: 12}, RRPONTSYD = {d1: 5, d2: 6}.
ExampleTable ==
    {Row("WALCL", Calendar[1], 100), Row("WALCL", Calendar[2], 110),
     Row("WTREGEN", Calendar[1], 10), Row("WTREGEN", Calendar[2], 12),
     Row("RRPONTSYD", Calendar[1], 5), Row("RRPONTSYD", Calendar[2], 6)}

\* C8: get_net_liquidity_history emits a point for a date exactly when the
\* date is in the history window of WALCL, WTREGEN and RRPONTSYD, with the
\* value WALCL - WTREGEN - RRPONTSYD * 1000; the example table yields
\* [{d1, -4910}, {d2, -5902}].
C8_NetLiquidityInnerJoin ==
    result.op = "get_net_liquidity_history" =>
        LET w == Window("WALCL", result.days)
            t == Window("WTREGEN", result.days)
            r == Window("RRPONTSYD", result.days)
            h == result.value
        IN  /\ EmitsExactly(h, DatesOf(w) \cap DatesOf(t) \cap DatesOf(r))
            /\ \A i \in 1..Len(h) :
                 h[i].value = ValueAt(w, h[i].date) - ValueAt(t, h[i].date)
                                - ValueAt(r, h[i].date) * 1000
            /\ get_net_liquidity_history(ExampleTable, 2)
                 = <<[date |-> Calendar[1], value |-> -4910],
                     [date |-> Calendar[2], value |-> -5902]>>

\* A history of one point: WALCL and WTREGEN hold both dates, RRPONTSYD the
\* second alone, with a reverse-repo balance that is not zero.
C8_Witness ==
    /\ result.op = "get_net_liquidity_history"
    /\ result.days = 2
    /\ DatesOf(where_series(observations, "WALCL")) = {Calendar[1], Calendar[2]}
    /\ DatesOf(where_series(observations, "WTREGEN")) = {Calendar[1], Calendar[2]}
    /\ where_series(observations, "RRPONTSYD") = {Row("RRPONTSYD", Calendar[2], 5)}
    /\ Len(result.value) = 1
    /\ result.value[1].date = Calendar[2]

\* C9: in get_global_liquidity_history, a date of both the WALCL and the
\* ECBASSETSW window is emitted exactly when a DEXUSEU observation of the
\* window is dated on or before it, and its value uses the rate of the latest
\* such observation; so no emitted date is earlier than the first FX
\* observation.
C9_GlobalForwardFill ==
    result.op = "get_global_liquidity_history" =>
        LET w == Window("WALCL", result.days)
            e == Window("ECBASSETSW", result.days)
            fx == Window("DEXUSEU", result.days)
            h == result.value
            Rates(d) == {f \in fx : f.date <= d}
        IN  /\ EmitsExactly(h, {d \in DatesOf(w) \cap DatesOf(e) : Rates(d) # {}})
            /\ \A i \in 1..Len(h) :
                 LET d == h[i].date
                     f == CHOOSE f \in Rates(d) : \A g \in Rates(d) : g.date <= f.date
                 IN  /\ h[i].value
                          = round_div(ValueAt(w, d) + ValueAt(e, d) * f.value, 100)
                     /\ \A g \in fx : g.date <= d => g.date <= f.date
            /\ \A i \in 1..Len(h) : \A g \in fx :
                 (\A f \in fx : g.date <= f.date) => g.date <= h[i].date

\* A history in which the first date of WALCL and ECBASSETSW is skipped, the
\* one FX observation being later, and the second is emitted at its rate.
C9_Witness ==
    /\ result.op = "get_global_liquidity_history"
    /\ result.days = 2
    /\ DatesOf(where_series(observations, "WALCL")) = {Calendar[1], Calendar[2]}
    /\ DatesOf(where_series(observations, "ECBASSETSW")) = {Calendar[1], Calendar[2]}
    /\ where_series(observations, "DEXUSEU") = {Row("DEXUSEU", Calendar[2], 2)}
    /\ Len(result.value) = 1
    /\ result.value[1].date = Calendar[2]

-----------------------------------------------------------------------------
(* Claims about the altcoin estimate *)

\* The sum of the basket on a date, over the history windows of n rows.
TrackedSum(d, n) ==
    LET ValueIn(sid) == IF d \in DatesOf(Window(sid, n))
                        THEN ValueAt(Window(sid, n), d) ELSE 0
    IN  ValueIn("ETH_MCAP") + ValueIn("BNB_MCAP") + ValueIn("SOL_MCAP")
            + ValueIn("XRP_MCAP")

\* The latest date of the anchor series in its window.
LatestAnchor(n) ==
    CHOOSE d \in DatesOf(Window("ETH_MCAP", n)) :
        \A e \in DatesOf(Window("ETH_MCAP", n)) : e <= d

\* Whether every point of a history is the tracked sum of its date times
\* true_total_alts / tracked_sum(latest), in billions to the nearest 0.01.
ScaledByLatest(h, global_stats, n) ==
    \A i \in 1..Len(h) :
        h[i].value
            = round_div(TrackedSum(h[i].date, n)
                            * global_stats.total_mcap * (100 - global_stats.btc_mcap_pct),
                        TrackedSum(LatestAnchor(n), n) * 1000)

\* C11: whenever get_altcoin_history is given a global market snapshot and the
\* tracked sum on the latest ETH_MCAP date is strictly positive, every emitted
\* value is the tracked sum of its date scaled by
\* total_mcap * (1 - btc_mcap_pct / 100) / tracked_sum(latest).
C11_ScaleFromLatest ==
    (/\ result.op = "get_altcoin_history"
     /\ result.global_stats # None
     /\ Window("ETH_MCAP", result.days) # {}
     /\ TrackedSum(LatestAnchor(result.days), result.days) > 0)
        => ScaledByLatest(result.value, result.global_stats, result.days)

-----------------------------------------------------------------------------
(* Claims about the impulse and the regime *)

IsImpulse == result.op = "get_liquidity_impulse"

SortedByDate(h) == \A i \in 1..(Len(h) - 1) : h[i].date <= h[i + 1].date

\* The positions of a list dated on or before the day 30 days before its last
\* point.
Qualifying(h) == {i \in 1..Len(h) : h[i].date <= h[Len(h)].date - 30}

\* C12: on a list sorted ascending by date, get_liquidity_impulse returns None
\* exactly when the list has fewer than 2 points or no point is dated on or
\* before (last date - 30 days); otherwise it compares the last point with the
\* point of greatest date on or before that day (the last of them in the list).
C12_ImpulseReference ==
    (IsImpulse /\ SortedByDate(result.net_liq_history)) =>
        LET h == result.net_liq_history
        IN  /\ result.value = None <=> (Len(h) < 2 \/ Qualifying(h) = {})
            /\ result.value # None =>
                 LET k == CHOOSE k \in Qualifying(h) : \A j \in Qualifying(h) : j <= k
                     change == h[Len(h)].value - h[k].value
                 IN  /\ \A j \in Qualifying(h) : h[j].date <= h[k].date
                     /\ result.value.change_billions = round_div(change, 100)
                     /\ h[k].value # 0 =>
                          result.value.change_pct
                              = round_div(change * 10000, Abs(h[k].value))

\* A sorted list of three points dated 1, 31 and 68: the points dated 1 and 31
\* are on or before day 38, and the last point is compared with the one dated
\* 31 (25100 against 110).
C12_Witness ==
    /\ IsImpulse
    /\ Len(result.net_liq_history) = 3
    /\ result.net_liq_history[1] = [date |-> 1, value |-> 100]
    /\ result.net_liq_history[2] = [date |-> 31, value |-> 110]
    /\ result.net_liq_history[3] = [date |-> 68, value |-> 25100]
    /\ result.value = [change_billions |-> 250, change_pct |-> 2271818]

\* Whether the dates and the values of a list both rise strictly along it.
StrictlyIncreasing(h) ==
    \A i \in 1..(Len(h) - 1) : h[i].date < h[i + 1].date /\ h[i].value < h[i + 1].value

\* C13 as stated: on a list whose values rise strictly with the date, the
\* impulse get_liquidity_impulse reports has a strictly positive
\* change_billions.
C13_PositiveChange ==
    (IsImpulse /\ StrictlyIncreasing(result.net_liq_history) /\ result.value # None)
        => result.value.change_billions > 0

\* C13, amended: on a list whose values rise strictly with the date, the
\* impulse reported has a change_billions that is never negative, and that is
\* strictly positive whenever the last value exceeds the compared past value by
\* more than 50 millions (0.05 billion, half of the last digit kept).
C13_NonNegativeChange ==
    (IsImpulse /\ StrictlyIncreasing(result.net_liq_history) /\ result.value # None)
        => LET h == result.net_liq_history
               k == CHOOSE k \in Qualifying(h) : \A j \in Qualifying(h) : j <= k
           IN  /\ result.value.change_billions >= 0
               /\ h[Len(h)].value - h[k].value > 50
                    => result.value.change_billions > 0

\* A strictly rising list whose last value is 10 millions above the value 37
\* days earlier: the change of 0.01 billion is reported as 0.0.
C13_Witness ==
    /\ IsImpulse
    /\ result.net_liq_history
         = <<[date |-> 1, value |-> 0], [date |-> 31, value |-> 100],
             [date |-> 68, value |-> 110]>>
    /\ result.value.change_billions = 0
    /\ result.value.change_pct = 1000

\* C14: get_regime returns "expanding" exactly when the impulse is present
\* with change_billions > 20, "contracting" exactly when it is present with
\* change_billions < -20, and "neutral" in every other case; it returns no
\* other string.
C14_RegimeThresholds ==
    result.op = "get_regime" =>
        LET impulse == result.impulse
        IN  /\ result.value \in {"expanding", "contracting", "neutral"}
            /\ result.value = "expanding"
                 <=> (impulse # None /\ impulse.change_billions > 200)
            /\ result.value = "contracting"
                 <=> (impulse # None /\ impulse.change_billions < -200)

\* A call with a change of 20 billion exactly, which is neutral.
C14_Witness ==
    /\ result.op = "get_regime"
    /\ result.impulse # None
    /\ result.impulse.change_billions = 200
    /\ result.value = "neutral"

-----------------------------------------------------------------------------
(* Claims about the NET_LIQUIDITY entry of the snapshot *)

IsSnapshot == result.op = "get_current_snapshot"

\* Whether the entries of the three components all carry a value in a field.
AllHave(snapshot, field) ==
    \A s \in NetSeries : field \in DOMAIN snapshot[s] /\ snapshot[s][field] # None

\* The net-liquidity formula over a field of the three component entries.
NetOf(snapshot, field) ==
    snapshot["WALCL"][field][1] - snapshot["WTREGEN"][field][1]
        - snapshot["RRPONTSYD"][field][1] * 1000

\* Whether the NET_LIQUIDITY entry carries a reference recomputed from the
\* component references, and the change from it.
CarriesReference(snapshot, ago, change) ==
    LET nl == snapshot["NET_LIQUIDITY"]
    IN  /\ ago \in DOMAIN nl
        /\ change \in DOMAIN nl
        /\ nl[ago] = Some(NetOf(snapshot, ago))
        /\ nl[change] = nl.current[1] - NetOf(snapshot, ago)

\* C15: whenever the WALCL, WTREGEN and RRPONTSYD entries all have a current
\* value and all have a week-ago (month-ago) reference, zero included, the
\* NET_LIQUIDITY entry carries week_ago = WALCL.week_ago - WTREGEN.week_ago -
\* RRPONTSYD.week_ago * 1000 and week_change = current - week_ago (month_ago
\* and month_change likewise).
C15_NetLiquidityReferences ==
    (IsSnapshot /\ AllHave(result.value, "current")) =>
        /\ "NET_LIQUIDITY" \in DOMAIN result.value
        /\ AllHave(result.value, "week_ago")
             => CarriesReference(result.value, "week_ago", "week_change")
        /\ AllHave(result.value, "month_ago")
             => CarriesReference(result.value, "month_ago", "month_change")

\* The stored dates of a series.
StoredDates(s) == DatesOf(where_series(observations, s))

\* C16: when WALCL, WTREGEN and RRPONTSYD hold the same dates, one at least,
\* the current value and current_date of the NET_LIQUIDITY entry of the
\* snapshot are the value and the date of the last point of
\* get_net_liquidity_history, for every window of one row or more.
C16_SnapshotAgreesWithHistory ==
    (/\ IsSnapshot
     /\ StoredDates("WALCL") # {}
     /\ StoredDates("WTREGEN") = StoredDates("WALCL")
     /\ StoredDates("RRPONTSYD") = StoredDates("WALCL"))
        => /\ "NET_LIQUIDITY" \in DOMAIN result.value
           /\ \A days \in 1..MaxLimit :
                LET h == get_net_liquidity_history(observations, days)
                    nl == result.value["NET_LIQUIDITY"]
                IN  /\ h # <<>>
                    /\ nl.current = Some(h[Len(h)].value)
                    /\ nl.current_date = h[Len(h)].date

\* A snapshot of a table in which the three series hold the same two dates and
\* the reverse-repo balance differs between them, so that the last point is
\* not the first.
C16_Witness ==
    /\ IsSnapshot
    /\ \A s \in NetSeries : StoredDates(s) = {Calendar[1], Calendar[2]}
    /\ Row("RRPONTSYD", Calendar[1], 0) \in observations
    /\ Row("RRPONTSYD", Calendar[2], 5) \in observations
    /\ Row("WALCL", Calendar[2], 110) \in observations
    /\ Row("WTREGEN", Calendar[2], 12) \in observations
    /\ result.value["NET_LIQUIDITY"].current = Some(-4902)
    /\ result.value["NET_LIQUIDITY"].current_date = Calendar[2]

-----------------------------------------------------------------------------
(* Claims about the percent changes *)

\* Whether a history has a point `back` places before its last, of value 0.
ZeroEarlier(history, back) ==
    Len(history) > back /\ history[Len(history) - back].value = 0

\* Whether a returned summary has the entry key, equal to 0.
ZeroPct(value, key) ==
    /\ "summary" \in DOMAIN value
    /\ key \in DOMAIN value.summary
    /\ value.summary[key] = 0

\* C17: every percent change is 0 percent, and nothing fails, when its
\* denominator is zero: change_pct of the impulse when the compared past net
\* liquidity is 0, and the 30-day percent changes of the BTC, ETH, altcoin and
\* global-liquidity summaries when the earlier value is 0.
C17_ZeroDenominatorGivesZero ==
    result.op = "build_dashboard_data" =>
        LET net == get_net_liquidity_history(observations, 2000)
        IN  /\ "raised" \notin DOMAIN result.value
            /\ (Len(net) >= 2 /\ Qualifying(net) # {}
                  /\ net[CHOOSE k \in Qualifying(net) :
                             \A j \in Qualifying(net) : j <= k].value = 0)
                 => result.value.impulse.change_pct = 0
            /\ ZeroEarlier(get_btc_history(observations, 2000), 30)
                 => ZeroPct(result.value, "btc_30d_pct")
            /\ ZeroEarlier(get_eth_history(observations, 2000), 30)
                 => ZeroPct(result.value, "eth_30d_pct")
            /\ ZeroEarlier(get_altcoin_history(observations, None, 2000), 30)
                 => ZeroPct(result.value, "altcoin_30d_pct")
            /\ ZeroEarlier(get_global_liquidity_history(observations, 2000), 4)
                 => ZeroPct(result.value, "global_30d_pct")

-----------------------------------------------------------------------------
(* Claims about every derived sequence *)

HistoryOps ==
    {"get_net_liquidity_history", "get_global_liquidity_history",
     "get_stablecoin_history", "get_altcoin_history", "get_ism_history",
     "get_btc_history", "get_eth_history"}

\* C18: every derived sequence (net liquidity, global liquidity, stablecoin,
\* altcoin estimate, NFCI, BTC and ETH price histories) is strictly increasing
\* by date, oldest first, so that no date appears twice.
C18_HistoriesStrictlyIncreasing ==
    result.op \in HistoryOps =>
        \A i \in 1..(Len(result.value) - 1) :
            result.value[i].date < result.value[i + 1].date

\* A price history of as many points as the store holds dates, one at least
\* after the first.
C18_Witness ==
    /\ result.op = "get_btc_history"
    /\ Len(result.value) = MaxDate
    /\ result.value[1].date = Calendar[1]
    /\ result.value[MaxDate].date = Calendar[MaxDate]

\* Whether one of the series of a set has no row.
SomeEmpty(series) == \E s \in series : StoredDates(s) = {}

\* C19: data absence raises nothing and yields the empty results: a history
\* function returns the empty sequence when a series it requires has no row or
\* the series it joins share no date (for global liquidity also when every FX
\* rate is later than the shared dates); the impulse is then None and the regime
\* "neutral"; the snapshot has current = None for every series without a row
\* and no NET_LIQUIDITY entry when one of WALCL, WTREGEN, RRPONTSYD has none.
C19_AbsenceYieldsEmpty ==
    LET Empty(op, absent) == (result.op = op /\ absent) => result.value = <<>>
        no_net == SomeEmpty(NetSeries)
                    \/ StoredDates("WALCL") \cap StoredDates("WTREGEN")
                         \cap StoredDates("RRPONTSYD") = {}
    IN  /\ Empty("get_net_liquidity_history", no_net)
        /\ Empty("get_global_liquidity_history",
                 \/ SomeEmpty(GlobalSeries)
                 \/ StoredDates("WALCL") \cap StoredDates("ECBASSETSW") = {}
                 \/ \A d \in StoredDates("WALCL") \cap StoredDates("ECBASSETSW") :
                        \A f \in StoredDates("DEXUSEU") : d < f)
        /\ Empty("get_stablecoin_history", StoredDates("USDT_MCAP") = {})
        /\ Empty("get_altcoin_history", StoredDates("ETH_MCAP") = {})
        /\ Empty("get_ism_history", StoredDates("NFCI") = {})
        /\ Empty("get_btc_history", StoredDates("BTC_USD") = {})
        /\ Empty("get_eth_history", StoredDates("ETH_USD") = {})
        /\ (result.op = "build_dashboard_data" /\ no_net)
             => /\ "raised" \notin DOMAIN result.value
                /\ result.value.impulse = None
                /\ result.value.regime = "neutral"
        /\ IsSnapshot
             => /\ \A s \in SERIES :
                     StoredDates(s) = {}
                         => result.value[s] = [label |-> Label(s), current |-> None]
                /\ SomeEmpty(NetSeries) => "NET_LIQUIDITY" \notin DOMAIN result.value

\* A stablecoin history asked of a store that holds USDC_MCAP on every date
\* and no USDT_MCAP: it is empty.
C19_Witness ==
    /\ result.op = "get_stablecoin_history"
    /\ result.days = MaxLimit
    /\ StoredDates("USDT_MCAP") = {}
    /\ StoredDates("USDC_MCAP") = Dates
    /\ result.value = <<>>

=============================================================================
